---- MODULE Spec2Model ----
(***************************************************************************)
(* blugnu/capture: capture.Output(fn) redirects os.Stdout and os.Stderr to *)
(* pipes, drains each pipe on a goroutine, runs fn, closes the write ends, *)
(* receives the drained text and copy error over two unbuffered channels,  *)
(* splits the text into lines and joins the errors.                        *)
(*                                                                         *)
(* Structured values are tuples read through named accessors.              *)
(*                                                                         *)
(* Spec is one call of Output; SpecBg adds a goroutine that fn left        *)
(* writing; SpecSeq is calls one after the other; SpecConc is two calls on *)
(* two goroutines; SpecNested is fn calling Output itself; SpecStrings is  *)
(* the line splitter alone. With two calls in progress the variables og .. *)
(* panicked are the locals of the call whose goroutine runs, and other     *)
(* holds the locals of the other call.                                     *)
(***************************************************************************)
EXTENDS Integers, Sequences, FiniteSets, TLC

\* ------------------------------------------------------------------ bounds
\* the number of bytes fn writes in one call of Output
MaxWrites == 3
\* the number of bytes a pipe holds before a write to it blocks
PipeCap == 2
\* the number of writes the caller makes after Output has returned
MaxAfter == 1
\* the longest text handed to the line splitter on its own
MaxTextLen == 4
\* the number of bytes written by a task that fn started and left running
MaxBg == 1
\* the number of calls of Output the caller makes one after the other
MaxCalls == 2
\* the number of bytes the fns write in a run with two calls side by side
MaxOverlapWrites == 1
\* the number of bytes the fns write in a run with a call within a call
MaxNestedWrites == 2

\* ------------------------------------------------------------------ values
NL == "\n"
Alphabet == {"a", NL}
WideAlphabet == {"a", "b", NL}
Streams == {"stdout", "stderr"}

\* an *os.File: a descriptor the process started with, or a pipe's write end
Fd(n) == <<"fd", n>>
W(id) == <<"w", id>>
NoFile == <<"none", 0>>
IsFd(f) == f[1] = "fd"
IsW(f) == f[1] = "w"
PipeOf(f) == f[2]
OrigFiles == {Fd(1), Fd(2)}

\* error values <<kind, name, wrapped errors>>: nil, a plain error,
\* fmt.Errorf with two %w, errors.Join
Nil == <<"nil", "", <<>>>>
Leaf(name) == <<"leaf", name, <<>>>>
Unwrap(e) == e[3]
fnerr == Leaf("function error")
cpyerr == Leaf("copy error")
ErrStdoutCapture == Leaf("ErrStdoutCapture")
ErrStderrCapture == Leaf("ErrStderrCapture")
FnResults == {Nil, fnerr}

\* fmt.Errorf("%w: %w", a, b): an error that unwraps to both operands
ErrorfFirstOnly(a, b) == <<"wrap", "", <<a>>>>
Errorf(a, b) == <<"wrap", "", <<a, b>>>>

RECURSIVE NonNil(_)
NonNil(es) ==
    IF es = <<>> THEN <<>>
    ELSE IF Head(es) = Nil THEN NonNil(Tail(es))
    ELSE <<Head(es)>> \o NonNil(Tail(es))

\* errors.Join: nil errors are dropped; nil when nothing is left
JoinFirstOnly(es) == IF es = <<>> THEN Nil ELSE Head(es)
Join(es) ==
    IF NonNil(es) = <<>> THEN Nil
    ELSE <<"join", "", NonNil(es)>>

\* errors.Is: the error itself, or any error it unwraps to
RECURSIVE Is(_, _)
Is(e, target) ==
    \/ e = target
    \/ \E i \in 1..Len(Unwrap(e)) : Is(Unwrap(e)[i], target)

\* ------------------------------------------------------------ line split
\* a []string <<is nil, elements>>: nil, or a slice with elements
NilLines == <<TRUE, <<>>>>
Slice(v) == <<FALSE, v>>
IsNilLines(l) == l[1]
Elems(l) == l[2]

HasNL(s) == \E i \in 1..Len(s) : s[i] = NL
FirstNL(s) == CHOOSE i \in 1..Len(s) : s[i] = NL /\ \A j \in 1..(i-1) : s[j] # NL

\* strings.Split(s, "\n"): cut at each terminator, the rest is the last piece
RECURSIVE Split(_)
Split(s) ==
    IF ~HasNL(s) THEN <<s>>
    ELSE <<SubSeq(s, 1, FirstNL(s) - 1)>> \o Split(SubSeq(s, FirstNL(s) + 1, Len(s)))

\* the closure `strings` of Output
stringsDropLast(s) ==
    LET l == Split(s) IN
    IF Len(l) > 1 \/ (Len(l) = 1 /\ l[1] # <<>>)
    THEN Slice(SubSeq(l, 1, Len(l) - 1))
    ELSE NilLines
stringsKeepTrailing(s) ==
    LET l == Split(s) IN
    IF Len(l) > 1 \/ (Len(l) = 1 /\ l[1] # <<>>) THEN Slice(l) ELSE NilLines
stringsNeverNil(s) ==
    LET l == Split(s) IN
    IF l[Len(l)] = <<>> THEN Slice(SubSeq(l, 1, Len(l) - 1)) ELSE Slice(l)
strings(s) ==
    LET l == Split(s) IN
    IF Len(l) > 1 \/ (Len(l) = 1 /\ l[1] # <<>>)
    THEN IF l[Len(l)] = <<>> THEN Slice(SubSeq(l, 1, Len(l) - 1)) ELSE Slice(l)
    ELSE NilLines

\* ------------------------------------------------------------------- state
VARIABLES
    handle,   \* os.Stdout and os.Stderr: the file each name refers to now
    pre,      \* the value of each handle when Output was called
    pipeBuf,  \* per pipe created so far, the bytes written and not yet read
    wclosed,  \* per pipe created so far, whether its write end is closed
    og,       \* per capture(): og, the handle value it saved
    pipe,     \* per capture(): the pipe it made (0 before it ran)
    dpc,      \* per capture(): where its goroutine is
    buf,      \* per capture(): the goroutine's buf
    cerr,     \* per capture(): the error copyFn returned to the goroutine
    pc,       \* the position of the caller's thread in Output
    pending,  \* the Write call fn is inside: <<stream, file it resolved>>
    written,  \* per stream, the bytes fn's Write calls have delivered
    sink,     \* per original descriptor, the bytes that reached it
    after,    \* the streams the caller wrote through since Output returned
    copyFails,\* per stream, whether copyFn reports an error on its pipe
    errs,     \* Output's errs
    stdout,   \* Output's stdout
    stderr,   \* Output's stderr
    ret,      \* what Output returned: <<>> before, then <<stdout, stderr, err>>
    arg,      \* a text handed to the line splitter on its own
    lines,    \* what the line splitter gave for arg: <<>> before, then <<l>>
    rclosed,  \* per pipe created so far, whether its read end is closed
    log,      \* the steps this call of Output has taken, in order
    panicked, \* whether fn panicked in this call of Output
    other,    \* the locals of the other call of Output in progress, if any
    earlier,  \* the calls of Output that are over: <<how many, bytes their fns wrote>>
    bg        \* the writes made by a task fn started: <<stream, file, ok>>

vars == <<handle, pre, pipeBuf, wclosed, og, pipe, dpc, buf, cerr, pc, pending,
          written, sink, after, copyFails, errs, stdout, stderr, ret, arg, lines,
          rclosed, log, panicked, other, earlier, bg>>

At(op, s) == <<op, s>>
NoPending == <<"", NoFile>>
\* no other call of Output is in progress
NoFrame == <<>>
\* the locals of a call of Output and of its two calls of capture
Frame == <<og, pipe, dpc, buf, cerr, pc, pending, written, errs, stdout,
           stderr, ret, log, panicked>>
Fog(f) == f[1]
Fpipe(f) == f[2]
Fdpc(f) == f[3]
Fcerr(f) == f[5]
Fpc(f) == f[6]
Fwritten(f) == f[8]
Fret(f) == f[12]
Flog(f) == f[13]
\* the locals of a call of Output on entry
NewFrame ==
    << [s \in Streams |-> NoFile], [s \in Streams |-> 0],
       [s \in Streams |-> "none"], [s \in Streams |-> <<>>],
       [s \in Streams |-> Nil], At("capture", "stdout"), NoPending,
       [s \in Streams |-> <<>>], <<>>, <<>>, <<>>, <<>>, <<>>, FALSE >>
\* the fn of a call has called Output itself
IsOuter(l) == \E i \in 1..Len(l) : l[i] = At("nested", "")
Nested == IsOuter(log) \/ (other # NoFrame /\ IsOuter(Flog(other)))
\* this call of Output is the caller's NCall-th
NCall == earlier[1] + 1

Init ==
    /\ handle \in [Streams -> OrigFiles]
    /\ pre = handle
    /\ pipeBuf = <<>>
    /\ wclosed = <<>>
    /\ og = [s \in Streams |-> NoFile]
    /\ pipe = [s \in Streams |-> 0]
    /\ dpc = [s \in Streams |-> "none"]
    /\ buf = [s \in Streams |-> <<>>]
    /\ cerr = [s \in Streams |-> Nil]
    /\ pc = At("capture", "stdout")
    /\ pending = NoPending
    /\ written = [s \in Streams |-> <<>>]
    /\ sink = [f \in OrigFiles |-> <<>>]
    /\ after = <<>>
    /\ copyFails \in [Streams -> BOOLEAN]
    /\ errs = <<>>
    /\ stdout = <<>>
    /\ stderr = <<>>
    /\ ret = <<>>
    /\ arg = <<>>
    /\ lines = <<>>
    /\ rclosed = <<>>
    /\ log = <<>>
    /\ panicked = FALSE
    /\ other = NoFrame
    /\ earlier = <<0, 0>>
    /\ bg = <<>>

\* the first call is made with the handles at the process's own two files
InitSeq == Init /\ handle = [s \in Streams |-> IF s = "stdout" THEN Fd(1) ELSE Fd(2)]

\* ----------------------------------------------------------------- capture
\* og := *t
SavedOriginal(s) == pre[s]
Saved(s) == handle[s]

\* r, w, _ := os.Pipe()
LastPipe(s) == IF pipeBuf = <<>> THEN 1 ELSE Len(pipeBuf)
SharedPipe(s) == IF s = "stdout" THEN 1 ELSE 2
NewPipe(s) == Len(pipeBuf) + 1

\* og := *t; r, w, _ := os.Pipe(); *t = w; go func() { ... }()
capture(s, next) ==
    /\ pc = At("capture", s)
    /\ og' = [og EXCEPT ![s] = Saved(s)]
    /\ pipeBuf' = Append(pipeBuf, <<>>)
    /\ wclosed' = Append(wclosed, FALSE)
    /\ rclosed' = Append(rclosed, FALSE)
    /\ log' = Append(log, At("capture", s))
    /\ pipe' = [pipe EXCEPT ![s] = NewPipe(s)]
    /\ handle' = [handle EXCEPT ![s] = W(NewPipe(s))]
    /\ dpc' = [dpc EXCEPT ![s] = "copy"]
    /\ pc' = next
    /\ UNCHANGED <<pre, buf, cerr, pending, written, sink, after, copyFails,
                   errs, stdout, stderr, ret, arg, lines>>
    /\ UNCHANGED <<panicked, other, earlier, bg>>

captureStdout == capture("stdout", At("capture", "stderr"))
captureStderr == capture("stderr", At("call", ""))

\* ------------------------------------------------------------- the handles
\* a Write through file f returns: at once on a descriptor or a closed write
\* end, and on an open pipe once the pipe has room
WriteReturns(f) ==
    \/ IsFd(f)
    \/ IsW(f) /\ (wclosed[PipeOf(f)] \/ Len(pipeBuf[PipeOf(f)]) < PipeCap)
WriteOk(f) == IsFd(f) \/ (IsW(f) /\ ~wclosed[PipeOf(f)])
PipesAfterWrite(f, b) ==
    IF IsW(f) /\ ~wclosed[PipeOf(f)]
    THEN [pipeBuf EXCEPT ![PipeOf(f)] = Append(@, b)]
    ELSE pipeBuf
SinkAfterWrite(f, b) ==
    IF IsFd(f) THEN [sink EXCEPT ![f] = Append(@, b)] ELSE sink

\* ---------------------------------------------------------------------- fn
\* the bytes written so far, by the fn of this call, of the calls before and
\* of the other call in progress
NWritten ==
    Len(written["stdout"]) + Len(written["stderr"]) + earlier[2]
    + (IF other = NoFrame THEN 0
       ELSE Len(Fwritten(other)["stdout"]) + Len(Fwritten(other)["stderr"]))

\* the number of bytes the fns write in the run
WriteBudget ==
    IF other = NoFrame THEN MaxWrites
    ELSE IF Nested THEN MaxNestedWrites
    ELSE MaxOverlapWrites

\* errs := []error{fn()}: fn is called
fnCall ==
    /\ pc = At("call", "")
    /\ log' = Append(log, At("fn", ""))
    /\ pc' = At("fn", "")
    /\ UNCHANGED <<handle, pre, pipeBuf, wclosed, og, pipe, dpc, buf, cerr,
                   pending, written, sink, after, copyFails, errs, stdout,
                   stderr, ret, arg, lines>>
    /\ UNCHANGED <<rclosed, panicked, other, earlier, bg>>

\* fn calls os.Stdout.Write or os.Stderr.Write: the handle is read now
fnCallWrite(s) ==
    /\ pc = At("fn", "")
    /\ pending = NoPending
    /\ NWritten < WriteBudget
    /\ pending' = <<s, handle[s]>>
    /\ UNCHANGED <<handle, pre, pipeBuf, wclosed, og, pipe, dpc, buf, cerr, pc,
                   written, sink, after, copyFails, errs, stdout, stderr, ret,
                   arg, lines>>
    /\ UNCHANGED <<rclosed, log, panicked, other, earlier, bg>>

\* the Write call delivers its byte and returns
fnWrite(b) ==
    /\ pc = At("fn", "")
    /\ pending # NoPending
    /\ WriteReturns(pending[2])
    /\ pipeBuf' = PipesAfterWrite(pending[2], b)
    /\ sink' = SinkAfterWrite(pending[2], b)
    /\ written' = IF WriteOk(pending[2])
                  THEN [written EXCEPT ![pending[1]] = Append(@, b)]
                  ELSE written
    /\ pending' = NoPending
    /\ UNCHANGED <<handle, pre, wclosed, og, pipe, dpc, buf, cerr, pc, after,
                   copyFails, errs, stdout, stderr, ret, arg, lines>>
    /\ UNCHANGED <<rclosed, log, panicked, other, earlier, bg>>

\* errs := []error{fn()}: fn returns e
fnReturn(e) ==
    /\ pc = At("fn", "")
    /\ pending = NoPending
    /\ errs' = <<e>>
    /\ pc' = At("close", "stdout")
    /\ UNCHANGED <<handle, pre, pipeBuf, wclosed, og, pipe, dpc, buf, cerr,
                   pending, written, sink, after, copyFails, stdout, stderr,
                   ret, arg, lines>>
    /\ UNCHANGED <<rclosed, log, panicked, other, earlier, bg>>

\* the deferred calls run last in, first out
FirstDeferredFifo == At("restore", "stdout")
FirstDeferred == At("restore", "stderr")

\* fn panics: nothing after line 100 runs, the deferred calls do
fnPanic ==
    /\ pc = At("fn", "")
    /\ pending = NoPending
    /\ panicked' = TRUE
    /\ pc' = FirstDeferred
    /\ UNCHANGED <<handle, pre, pipeBuf, wclosed, og, pipe, dpc, buf, cerr,
                   pending, written, sink, after, copyFails, errs, stdout,
                   stderr, ret, arg, lines>>
    /\ UNCHANGED <<rclosed, log, other, earlier, bg>>

\* --------------------------------------------------------- the drain task
\* copyFn(&buf, r): one Read takes some of the bytes in the pipe
drainRead(s) ==
    /\ dpc[s] = "copy"
    /\ \E k \in 1..Len(pipeBuf[pipe[s]]) :
        /\ buf' = [buf EXCEPT ![s] = @ \o SubSeq(pipeBuf[pipe[s]], 1, k)]
        /\ pipeBuf' = [pipeBuf EXCEPT ![pipe[s]] = SubSeq(@, k + 1, Len(@))]
    /\ UNCHANGED <<handle, pre, wclosed, og, pipe, dpc, cerr, pc, pending,
                   written, sink, after, copyFails, errs, stdout, stderr, ret,
                   arg, lines>>
    /\ UNCHANGED <<rclosed, log, panicked, other, earlier, bg>>

\* Read reports end of stream: the pipe is empty and its write end closed
AtEOFWhenEmpty(s) == pipeBuf[pipe[s]] = <<>>
AtEOF(s) == pipeBuf[pipe[s]] = <<>> /\ wclosed[pipe[s]]

\* copyFn returns nil at end of stream
drainEOF(s) ==
    /\ dpc[s] = "copy"
    /\ ~copyFails[s]
    /\ AtEOF(s)
    /\ dpc' = [dpc EXCEPT ![s] = "sendc"]
    /\ cerr' = [cerr EXCEPT ![s] = Nil]
    /\ UNCHANGED <<handle, pre, pipeBuf, wclosed, og, pipe, buf, pc, pending,
                   written, sink, after, copyFails, errs, stdout, stderr, ret,
                   arg, lines>>
    /\ UNCHANGED <<rclosed, log, panicked, other, earlier, bg>>

\* copyFn returns an error: the goroutine stops reading and goes on to send
drainFail(s) ==
    /\ dpc[s] = "copy"
    /\ copyFails[s]
    /\ dpc' = [dpc EXCEPT ![s] = "sendc"]
    /\ cerr' = [cerr EXCEPT ![s] = cpyerr]
    /\ UNCHANGED <<handle, pre, pipeBuf, wclosed, og, pipe, buf, pc, pending,
                   written, sink, after, copyFails, errs, stdout, stderr, ret,
                   arg, lines>>
    /\ UNCHANGED <<rclosed, log, panicked, other, earlier, bg>>

\* ------------------------------------------------------------------ finish
\* w.Close()
LeftOpen(s) == wclosed
Closed(s) == [wclosed EXCEPT ![pipe[s]] = TRUE]
finishClose(s) ==
    /\ pc = At("close", s)
    /\ wclosed' = Closed(s)
    /\ log' = Append(log, At("finish", s))
    /\ pc' = At("recvc", s)
    /\ UNCHANGED <<handle, pre, pipeBuf, og, pipe, dpc, buf, cerr, pending,
                   written, sink, after, copyFails, errs, stdout, stderr, ret,
                   arg, lines>>
    /\ UNCHANGED <<rclosed, panicked, other, earlier, bg>>

\* c <- buf.String() meets <-c
finishRecvC(s) ==
    /\ pc = At("recvc", s)
    /\ dpc[s] = "sendc"
    /\ dpc' = [dpc EXCEPT ![s] = "sende"]
    /\ stdout' = IF s = "stdout" THEN buf[s] ELSE stdout
    /\ stderr' = IF s = "stderr" THEN buf[s] ELSE stderr
    /\ pc' = At("recve", s)
    /\ UNCHANGED <<handle, pre, pipeBuf, wclosed, og, pipe, buf, cerr, pending,
                   written, sink, after, copyFails, errs, ret, arg, lines>>
    /\ UNCHANGED <<rclosed, log, panicked, other, earlier, bg>>

Sentinel(s) == IF s = "stdout" THEN ErrStdoutCapture ELSE ErrStderrCapture
AfterFinishOne(s) == At("return", "")
AfterFinish(s) == IF s = "stdout" THEN At("close", "stderr") ELSE At("return", "")

\* the text Output keeps once finish has returned err
KeptAlways(text, err) == text
Kept(text, err) == IF err # Nil THEN <<>> ELSE text
\* the errs Output has once finish has returned err
ErrsAfter(s, err) ==
    IF err # Nil THEN Append(errs, Errorf(Sentinel(s), err)) ELSE errs

\* e <- err meets <-e; then `if err != nil { errs = append(...); text = "" }`
finishRecvE(s) ==
    /\ pc = At("recve", s)
    /\ dpc[s] = "sende"
    /\ dpc' = [dpc EXCEPT ![s] = "exit"]
    /\ errs' = ErrsAfter(s, cerr[s])
    /\ stdout' = IF s = "stdout" THEN Kept(stdout, cerr[s]) ELSE stdout
    /\ stderr' = IF s = "stderr" THEN Kept(stderr, cerr[s]) ELSE stderr
    /\ log' = Append(log, At("finished", s))
    /\ pc' = AfterFinish(s)
    /\ UNCHANGED <<handle, pre, pipeBuf, wclosed, og, pipe, buf, cerr, pending,
                   written, sink, after, copyFails, ret, arg, lines>>
    /\ UNCHANGED <<rclosed, panicked, other, earlier, bg>>

\* return strings(stdout), strings(stderr), errors.Join(errs...)
return ==
    /\ pc = At("return", "")
    /\ ret' = <<strings(stdout), strings(stderr), Join(errs)>>
    /\ pc' = FirstDeferred
    /\ UNCHANGED <<handle, pre, pipeBuf, wclosed, og, pipe, dpc, buf, cerr,
                   pending, written, sink, after, copyFails, errs, stdout,
                   stderr, arg, lines>>
    /\ UNCHANGED <<rclosed, log, panicked, other, earlier, bg>>

\* the deferred func() { *t = og }
RestoredNot(s) == handle[s]
Restored(s) == og[s]
restore(s, next) ==
    /\ pc = At("restore", s)
    /\ handle' = [handle EXCEPT ![s] = Restored(s)]
    /\ log' = Append(log, At("restore", s))
    /\ pc' = next
    /\ UNCHANGED <<pre, pipeBuf, wclosed, og, pipe, dpc, buf, cerr, pending,
                   written, sink, after, copyFails, errs, stdout, stderr, ret,
                   arg, lines>>
    /\ UNCHANGED <<rclosed, panicked, other, earlier, bg>>

restoreStderr == restore("stderr", At("restore", "stdout"))
restoreStdout == restore("stdout", At("done", ""))

\* --------------------------------------------------------- after the call
\* the caller writes through a handle once Output has returned
afterWrite(s) ==
    /\ pc = At("done", "")
    /\ Len(after) < MaxAfter
    /\ WriteReturns(handle[s])
    /\ after' = Append(after, s)
    /\ pipeBuf' = PipesAfterWrite(handle[s], "a")
    /\ sink' = SinkAfterWrite(handle[s], "a")
    /\ UNCHANGED <<handle, pre, wclosed, og, pipe, dpc, buf, cerr, pc, pending,
                   written, copyFails, errs, stdout, stderr, ret, arg, lines>>
    /\ UNCHANGED <<rclosed, log, panicked, other, earlier, bg>>

\* the steps of a call of Output and of its goroutines
Call ==
    \/ captureStdout
    \/ captureStderr
    \/ fnCall
    \/ \E s \in Streams : fnCallWrite(s)
    \/ \E b \in Alphabet : fnWrite(b)
    \/ \E e \in FnResults : fnReturn(e)
    \/ fnPanic
    \/ \E s \in Streams : drainRead(s)
    \/ \E s \in Streams : drainEOF(s)
    \/ \E s \in Streams : drainFail(s)
    \/ \E s \in Streams : finishClose(s)
    \/ \E s \in Streams : finishRecvC(s)
    \/ \E s \in Streams : finishRecvE(s)
    \/ return
    \/ restoreStderr
    \/ restoreStdout

Next ==
    \/ Call
    \/ \E s \in Streams : afterWrite(s)

Spec == Init /\ [][Next]_vars

\* ------------------------------------------- a task fn leaves running
\* this call of Output has called fn
FnCalled == \E i \in 1..Len(log) : log[i] = At("fn", "")

\* a goroutine that fn started writes a byte through os.Stdout or os.Stderr,
\* while fn runs or after it returned; a Write to a closed write end fails
\* and its byte goes nowhere
bgWrite(s) ==
    /\ FnCalled
    /\ Len(bg) < MaxBg
    /\ WriteReturns(handle[s])
    /\ bg' = Append(bg, <<s, handle[s], WriteOk(handle[s])>>)
    /\ pipeBuf' = PipesAfterWrite(handle[s], "a")
    /\ sink' = SinkAfterWrite(handle[s], "a")
    /\ written' = IF IsW(handle[s]) /\ WriteOk(handle[s])
                  THEN [written EXCEPT ![s] = Append(@, "a")]
                  ELSE written
    /\ UNCHANGED <<handle, pre, wclosed, og, pipe, dpc, buf, cerr, pc, pending,
                   after, copyFails, errs, stdout, stderr, ret, arg, lines>>
    /\ UNCHANGED <<rclosed, log, panicked, other, earlier>>

NextBg ==
    \/ Next
    \/ \E s \in Streams : bgWrite(s)

SpecBg == Init /\ [][NextBg]_vars

\* ------------------------------------------------- two calls in progress
\* a goroutine of call f can take a step, or wait for one that can
Runnable(f) ==
    \/ Fpc(f) # At("done", "") /\ Fpc(f) # At("nested", "")
    \/ \E s \in Streams : Fdpc(f)[s] = "copy"

\* the scheduler runs a goroutine of the other call: the two calls' locals
\* change places, the handles and the pipes are the process's
switch ==
    /\ other # NoFrame
    /\ Runnable(other)
    /\ og' = other[1]
    /\ pipe' = other[2]
    /\ dpc' = other[3]
    /\ buf' = other[4]
    /\ cerr' = other[5]
    /\ pc' = other[6]
    /\ pending' = other[7]
    /\ written' = other[8]
    /\ errs' = other[9]
    /\ stdout' = other[10]
    /\ stderr' = other[11]
    /\ ret' = other[12]
    /\ log' = other[13]
    /\ panicked' = other[14]
    /\ other' = Frame
    /\ UNCHANGED <<handle, pre, pipeBuf, wclosed, rclosed, sink, after,
                   copyFails, arg, lines, earlier, bg>>

\* two goroutines are each about to call Output; every copy succeeds
InitConc ==
    /\ handle = [s \in Streams |-> IF s = "stdout" THEN Fd(1) ELSE Fd(2)]
    /\ pre = handle
    /\ pipeBuf = <<>>
    /\ wclosed = <<>>
    /\ og = [s \in Streams |-> NoFile]
    /\ pipe = [s \in Streams |-> 0]
    /\ dpc = [s \in Streams |-> "none"]
    /\ buf = [s \in Streams |-> <<>>]
    /\ cerr = [s \in Streams |-> Nil]
    /\ pc = At("capture", "stdout")
    /\ pending = NoPending
    /\ written = [s \in Streams |-> <<>>]
    /\ sink = [f \in OrigFiles |-> <<>>]
    /\ after = <<>>
    /\ copyFails = [s \in Streams |-> FALSE]
    /\ errs = <<>>
    /\ stdout = <<>>
    /\ stderr = <<>>
    /\ ret = <<>>
    /\ arg = <<>>
    /\ lines = <<>>
    /\ rclosed = <<>>
    /\ log = <<>>
    /\ panicked = FALSE
    /\ other = NewFrame
    /\ earlier = <<0, 0>>
    /\ bg = <<>>

\* the steps of two calls of Output whose fns return and whose copies succeed
NextConc ==
    \/ captureStdout
    \/ captureStderr
    \/ fnCall
    \/ \E s \in Streams : fnCallWrite(s)
    \/ \E b \in Alphabet : fnWrite(b)
    \/ \E e \in FnResults : fnReturn(e)
    \/ \E s \in Streams : drainRead(s)
    \/ \E s \in Streams : drainEOF(s)
    \/ \E s \in Streams : finishClose(s)
    \/ \E s \in Streams : finishRecvC(s)
    \/ \E s \in Streams : finishRecvE(s)
    \/ return
    \/ restoreStderr
    \/ restoreStdout
    \/ switch

SpecConc == InitConc /\ [][NextConc]_vars

\* -------------------------------------------------- a call within a call
\* fn calls Output: the caller's thread leaves the outer call's locals where
\* they are and enters a new call; the outer call's drain goroutines run on
nestedCall ==
    /\ pc = At("fn", "")
    /\ pending = NoPending
    /\ other = NoFrame
    /\ other' = <<og, pipe, dpc, buf, cerr, At("nested", ""), pending, written,
                  errs, stdout, stderr, ret, Append(log, At("nested", "")),
                  panicked>>
    /\ og' = NewFrame[1]
    /\ pipe' = NewFrame[2]
    /\ dpc' = NewFrame[3]
    /\ buf' = NewFrame[4]
    /\ cerr' = NewFrame[5]
    /\ pc' = NewFrame[6]
    /\ written' = NewFrame[8]
    /\ errs' = NewFrame[9]
    /\ stdout' = NewFrame[10]
    /\ stderr' = NewFrame[11]
    /\ ret' = NewFrame[12]
    /\ log' = NewFrame[13]
    /\ panicked' = NewFrame[14]
    /\ UNCHANGED <<handle, pre, pipeBuf, wclosed, rclosed, pending, sink, after,
                   copyFails, arg, lines, earlier, bg>>

\* the inner call is over: the thread is back in the outer call's fn, or,
\* when the inner call panicked, in the outer call's deferred calls
nestedReturn ==
    /\ pc = At("done", "")
    /\ other # NoFrame
    /\ Fpc(other) = At("nested", "")
    /\ og' = other[1]
    /\ pipe' = other[2]
    /\ dpc' = other[3]
    /\ buf' = other[4]
    /\ cerr' = other[5]
    /\ pc' = IF panicked THEN FirstDeferred ELSE At("fn", "")
    /\ pending' = other[7]
    /\ written' = other[8]
    /\ errs' = other[9]
    /\ stdout' = other[10]
    /\ stderr' = other[11]
    /\ ret' = other[12]
    /\ log' = other[13]
    /\ panicked' = panicked
    /\ other' = Frame
    /\ UNCHANGED <<handle, pre, pipeBuf, wclosed, rclosed, sink, after,
                   copyFails, arg, lines, earlier, bg>>

NextNested ==
    \/ Call
    \/ nestedCall
    \/ nestedReturn
    \/ switch

SpecNested == InitSeq /\ [][NextNested]_vars

\* ------------------------------------------------ one call after another
\* the caller calls Output again once the call before is over: the locals
\* of Output and capture are new, the handles and the pipes made so far
\* stay as they are (a drain goroutine that a panic left behind blocked in
\* copyFn reads a pipe that no handle refers to any more)
nextCall ==
    /\ pc = At("done", "")
    /\ other = NoFrame
    /\ NCall < MaxCalls
    /\ earlier' = <<NCall, NWritten>>
    /\ og' = [s \in Streams |-> NoFile]
    /\ pipe' = [s \in Streams |-> 0]
    /\ dpc' = [s \in Streams |-> "none"]
    /\ buf' = [s \in Streams |-> <<>>]
    /\ cerr' = [s \in Streams |-> Nil]
    /\ pc' = At("capture", "stdout")
    /\ written' = [s \in Streams |-> <<>>]
    /\ errs' = <<>>
    /\ stdout' = <<>>
    /\ stderr' = <<>>
    /\ ret' = <<>>
    /\ log' = <<>>
    /\ panicked' = FALSE
    /\ UNCHANGED <<handle, pre, pipeBuf, wclosed, rclosed, pending, sink, after,
                   copyFails, arg, lines, other, bg>>

NextSeq ==
    \/ Call
    \/ nextCall

SpecSeq == InitSeq /\ [][NextSeq]_vars

\* the line splitter on its own: any text up to MaxTextLen, split once
Texts == UNION {[1..n -> WideAlphabet] : n \in 0..MaxTextLen}
InitStrings ==
    /\ handle = [s \in Streams |-> IF s = "stdout" THEN Fd(1) ELSE Fd(2)]
    /\ pre = handle
    /\ pipeBuf = <<>>
    /\ wclosed = <<>>
    /\ og = [s \in Streams |-> NoFile]
    /\ pipe = [s \in Streams |-> 0]
    /\ dpc = [s \in Streams |-> "none"]
    /\ buf = [s \in Streams |-> <<>>]
    /\ cerr = [s \in Streams |-> Nil]
    /\ pc = At("capture", "stdout")
    /\ pending = NoPending
    /\ written = [s \in Streams |-> <<>>]
    /\ sink = [f \in OrigFiles |-> <<>>]
    /\ after = <<>>
    /\ copyFails = [s \in Streams |-> FALSE]
    /\ errs = <<>>
    /\ stdout = <<>>
    /\ stderr = <<>>
    /\ ret = <<>>
    /\ arg \in Texts
    /\ lines = <<>>
    /\ rclosed = <<>>
    /\ log = <<>>
    /\ panicked = FALSE
    /\ other = NoFrame
    /\ earlier = <<0, 0>>
    /\ bg = <<>>

splitLines ==
    /\ lines = <<>>
    /\ lines' = <<strings(arg)>>
    /\ UNCHANGED <<handle, pre, pipeBuf, wclosed, og, pipe, dpc, buf, cerr, pc,
                   pending, written, sink, after, copyFails, errs, stdout,
                   stderr, ret, arg>>
    /\ UNCHANGED <<rclosed, log, panicked, other, earlier, bg>>

NextStrings == splitLines

SpecStrings == InitStrings /\ [][NextStrings]_vars

\* every goroutine that can run does run: no step stays possible forever
\* without some step being taken
FairSpec == Spec /\ WF_vars(Next)

\* ------------------------------------------------------------- properties
Done == pc = At("done", "")
Returned == ret # <<>>
Ret(s) == IF s = "stdout" THEN ret[1] ELSE ret[2]
RetErr == ret[3]
Text(s) == IF s = "stdout" THEN stdout ELSE stderr
FnReturned == Head(errs)
CopyFailed(s) == cerr[s] # Nil
BothSucceed == \A s \in Streams : ~copyFails[s]
Received(s) == dpc[s] = "sende" \/ dpc[s] = "exit"

\* the reference line splitting: one pass over the text, left to right,
\* closing a line at each terminator
RECURSIVE Scan(_, _, _)
Scan(s, closed, cur) ==
    IF s = <<>> THEN <<closed, cur>>
    ELSE IF Head(s) = NL THEN Scan(Tail(s), Append(closed, cur), <<>>)
    ELSE Scan(Tail(s), closed, Append(cur, Head(s)))
RefLines(s) ==
    IF s = <<>> THEN NilLines
    ELSE IF s[Len(s)] = NL THEN Slice(Scan(s, <<>>, <<>>)[1])
    ELSE Slice(Append(Scan(s, <<>>, <<>>)[1], Scan(s, <<>>, <<>>)[2]))
CountNL(s) == Cardinality({i \in 1..Len(s) : s[i] = NL})
EndsWithNL(s) == s # <<>> /\ s[Len(s)] = NL

\* C1: once Output has returned, whatever fn returned and whichever copies
\* failed, each handle holds the value it held when Output was called, and
\* every write the caller then makes through a handle arrives at that
\* original file.
C1_HandlesRestored ==
    Done =>
        /\ handle = pre
        /\ \A f \in OrigFiles :
            Len(sink[f]) = Cardinality({i \in 1..Len(after) : pre[after[i]] = f})
C1_Witness ==
    /\ Done
    /\ Returned
    /\ FnReturned = fnerr
    /\ CopyFailed("stdout") /\ CopyFailed("stderr")
    /\ pre["stdout"] # pre["stderr"]
    /\ after = <<"stderr">>
    /\ sink[pre["stderr"]] = <<"a">>

\* C2: when both copies succeed and fn writes finitely often and returns,
\* Output returns, also when a stream gets more bytes than a pipe holds:
\* both drain tasks are copying whenever fn is inside a Write, and finish
\* closes the write end before it waits.
C2_OutputReturns ==
    /\ [](BothSucceed /\ pending # NoPending => \A s \in Streams : dpc[s] = "copy")
    /\ <>(Done \/ ~BothSucceed)
C2_Witness ==
    /\ Done
    /\ BothSucceed
    /\ Len(written["stdout"]) > PipeCap

\* C3: when a stream's copy succeeds, the text finish returns is exactly the
\* bytes written through that stream's handle, in write order, under every
\* interleaving of fn and the drain task.
C3_FinishReturnsAllBytes ==
    \A s \in Streams : (Received(s) /\ ~CopyFailed(s)) => Text(s) = written[s]
C3_Witness ==
    /\ dpc["stderr"] = "exit"
    /\ ~CopyFailed("stderr")
    /\ Len(written["stderr"]) > PipeCap
    /\ stderr = written["stderr"]

\* C4: the returned error is nil exactly when fn returned nil and no copy
\* failed; otherwise errors.Is finds in it fn's error and the sentinel of
\* each stream whose copy failed; and when fn returns an error and no copy
\* fails, both line sequences are the lines written.
C4_JoinedError ==
    Returned =>
        /\ (RetErr = Nil) <=> (FnReturned = Nil /\ \A s \in Streams : ~CopyFailed(s))
        /\ FnReturned # Nil => Is(RetErr, FnReturned)
        /\ \A s \in Streams : CopyFailed(s) => Is(RetErr, Sentinel(s))
        /\ (FnReturned # Nil /\ \A s \in Streams : ~CopyFailed(s)) =>
                \A s \in Streams : Ret(s) = RefLines(written[s])
C4_Witness ==
    /\ Returned
    /\ FnReturned = fnerr
    /\ CopyFailed("stdout") /\ CopyFailed("stderr")
    /\ Is(RetErr, fnerr) /\ Is(RetErr, ErrStdoutCapture) /\ Is(RetErr, ErrStderrCapture)

\* C5: a stream whose copy failed is returned absent, however much was
\* written or drained, with its sentinel in the error; a stream whose copy
\* succeeded is returned in full.
C5_FailureDiscards ==
    Returned =>
        \A s \in Streams :
            /\ CopyFailed(s) => (Ret(s) = NilLines /\ Is(RetErr, Sentinel(s)))
            /\ ~CopyFailed(s) => Ret(s) = RefLines(written[s])
C5_Witness ==
    /\ Returned
    /\ CopyFailed("stdout") /\ buf["stdout"] # <<>>
    /\ ~CopyFailed("stderr") /\ written["stderr"] # <<>>
    /\ ret[1] = NilLines /\ ~IsNilLines(ret[2])

\* C6: a stream that got no byte is returned absent, never as an empty
\* slice; a stream that got a byte and whose copy succeeded is not absent,
\* and a lone terminator gives the one line "".
C6_EmptyIsAbsent ==
    Returned =>
        \A s \in Streams :
            /\ written[s] = <<>> => Ret(s) = NilLines
            /\ Ret(s) # Slice(<<>>)
            /\ (written[s] # <<>> /\ ~CopyFailed(s)) =>
                    (~IsNilLines(Ret(s)) /\ Len(Elems(Ret(s))) >= 1)
            /\ (written[s] = <<NL>> /\ ~CopyFailed(s)) => Ret(s) = Slice(<< <<>> >>)
C6_Witness ==
    /\ Returned
    /\ BothSucceed
    /\ written["stdout"] = <<NL>> /\ ret[1] = Slice(<< <<>> >>)
    /\ written["stderr"] = <<>> /\ ret[2] = NilLines

\* C7: for every text the closure `strings` gives what the reference gives:
\* absent for the empty text, else the segments between terminators in
\* order, without the one empty segment after a final terminator and with
\* an unterminated last line kept.
C7_SplitMatchesReference == lines # <<>> => lines[1] = RefLines(arg)
C7_Witness ==
    /\ lines # <<>>
    /\ arg = <<"a", NL, "b">>
    /\ lines[1] = Slice(<< <<"a">>, <<"b">> >>)

\* C8 as stated: a text that ends with a terminator is returned as the
\* written lines in order and its last element is never the empty string.
C8_LastLineNeverEmpty ==
    Returned =>
        \A s \in Streams :
            (~CopyFailed(s) /\ EndsWithNL(written[s])) =>
                /\ Ret(s) = Slice(Scan(written[s], <<>>, <<>>)[1])
                /\ Elems(Ret(s))[Len(Elems(Ret(s)))] # <<>>

\* C8 as amended: a text that ends with a terminator is returned as the
\* written lines in order, one entry per terminator, and its last element
\* is "" exactly when the last line written was itself empty.
C8_TerminatedLines ==
    Returned =>
        \A s \in Streams :
            (~CopyFailed(s) /\ EndsWithNL(written[s])) =>
                /\ Ret(s) = Slice(Scan(written[s], <<>>, <<>>)[1])
                /\ Len(Elems(Ret(s))) = CountNL(written[s])
                /\ (Elems(Ret(s))[Len(Elems(Ret(s)))] = <<>>) <=>
                        (Len(written[s]) = 1 \/ written[s][Len(written[s]) - 1] = NL)
C8_Witness ==
    /\ Returned
    /\ BothSucceed
    /\ written["stdout"] = <<"a", NL, NL>>
    /\ ret[1] = Slice(<< <<"a">>, <<>> >>)

\* C9: the two streams never mix: each has its own pipe, at every moment
\* the bytes written through a handle are exactly those in its own pipe and
\* drain buffer, and a stream is returned populated exactly when bytes were
\* written to it.
C9_StreamsIndependent ==
    /\ \A s \in Streams : pipe[s] # 0 => buf[s] \o pipeBuf[pipe[s]] = written[s]
    /\ (pipe["stdout"] # 0 /\ pipe["stderr"] # 0) => pipe["stdout"] # pipe["stderr"]
    /\ Returned =>
        \A s \in Streams : ~CopyFailed(s) =>
            /\ Ret(s) = RefLines(written[s])
            /\ IsNilLines(Ret(s)) <=> written[s] = <<>>
C9_Witness ==
    /\ Returned
    /\ BothSucceed
    /\ Len(written["stdout"]) = 2 /\ written["stderr"] = <<>>
    /\ ~IsNilLines(ret[1]) /\ ret[2] = NilLines

\* C10: a copy that fails, at whatever point of the drain, never stalls the
\* call: until Output has returned some step is always possible.
C10_CopyFailureNeverStalls ==
    (\E s \in Streams : copyFails[s]) => (Done \/ ENABLED Next)

\* ------------------------------------------- the steps of one call, counted
Count(ev) == Cardinality({i \in 1..Len(log) : log[i] = ev})
IsPrefix(a, b) == Len(a) <= Len(b) /\ SubSeq(b, 1, Len(a)) = a
Pipes == 1..Len(pipeBuf)
\* the steps of a call that returns, in the order of the statements of Output
ReturnOrder ==
    << At("capture", "stdout"), At("capture", "stderr"), At("fn", ""),
       At("finish", "stdout"), At("finished", "stdout"),
       At("finish", "stderr"), At("finished", "stderr"),
       At("restore", "stderr"), At("restore", "stdout") >>

\* C11: when fn panics, each stream's restore still runs, once, while the
\* panic leaves Output, and once control has left Output both handles hold
\* the values they held when Output was called.
C11_RestoresOnPanic ==
    panicked =>
        /\ \A s \in Streams : Count(At("restore", s)) <= 1
        /\ Done =>
            /\ \A s \in Streams : Count(At("restore", s)) = 1
            /\ handle = pre
C11_Witness ==
    /\ Done
    /\ panicked
    /\ pre["stdout"] # pre["stderr"]
    /\ written["stdout"] # <<>> /\ written["stderr"] # <<>>
    /\ handle = pre
    /\ Count(At("restore", "stdout")) = 1 /\ Count(At("restore", "stderr")) = 1

\* C13: once a call of Output is over, every pipe it created has its read
\* end and its write end closed.
C13_PipeEndsClosed ==
    Done => \A p \in Pipes : wclosed[p] /\ rclosed[p]

\* C14: in every call of Output, whether fn returns nil, returns an error or
\* panics, restore and finish are each called exactly once per stream: at
\* most once at any moment, and once when the call is over.
C14_CalledOnce ==
    /\ \A s \in Streams :
        Count(At("restore", s)) <= 1 /\ Count(At("finish", s)) <= 1
    /\ Done => \A s \in Streams :
        Count(At("restore", s)) = 1 /\ Count(At("finish", s)) = 1

\* C15: a call that returns takes its steps in one order: stdout is
\* redirected, then stderr, then fn is called once, with both handles at
\* their pipes' write ends; stdout's finish is called and returns, then
\* stderr's; then stderr's handle is restored, then stdout's, and only then
\* has Output returned.
C15_FixedOrder ==
    /\ ~panicked => IsPrefix(log, ReturnOrder)
    /\ pc = At("fn", "") =>
        \A s \in Streams : handle[s] = W(pipe[s]) /\ ~wclosed[pipe[s]]
    /\ (Done /\ Returned) => log = ReturnOrder
    /\ Returned => (Done <=> log = ReturnOrder)
C15_Witness ==
    /\ Done
    /\ Returned
    /\ log = ReturnOrder
    /\ written["stdout"] # <<>> /\ written["stderr"] # <<>>
    /\ FnReturned = fnerr

\* C16: each drain task hands over its text and then its error, once each,
\* to a finish that has closed the write end first; a drain task that holds
\* a result never leaves the call with no step to take; and once Output has
\* returned both drain tasks have ended.
C16_HandoffCompletes ==
    /\ \A s \in Streams :
        /\ (pc = At("recvc", s) \/ pc = At("recve", s)) => wclosed[pipe[s]]
        /\ dpc[s] = "sende" <=> pc = At("recve", s)
        /\ dpc[s] = "exit" <=> Count(At("finished", s)) = 1
        /\ ((dpc[s] = "sendc" \/ dpc[s] = "sende") /\ ~Done) => ENABLED Next
    /\ (Done /\ Returned) => \A s \in Streams : dpc[s] = "exit"

\* C20: the returned error holds a stream's sentinel exactly when that
\* stream's copy failed, with the copy's own error beside it, and its
\* constituents are fn's error, the stdout capture error and the stderr
\* capture error, in that order.
C20_SentinelMembership ==
    Returned =>
        /\ Is(RetErr, ErrStdoutCapture) <=> CopyFailed("stdout")
        /\ Is(RetErr, ErrStderrCapture) <=> CopyFailed("stderr")
        /\ \A s \in Streams : CopyFailed(s) => Is(RetErr, cerr[s])
        /\ (\A s \in Streams : ~CopyFailed(s)) => ~Is(RetErr, cpyerr)
        /\ RetErr # Nil =>
            Unwrap(RetErr) = NonNil(<<
                FnReturned,
                IF CopyFailed("stdout")
                THEN <<"wrap", "", <<ErrStdoutCapture, cerr["stdout"]>>>> ELSE Nil,
                IF CopyFailed("stderr")
                THEN <<"wrap", "", <<ErrStderrCapture, cerr["stderr"]>>>> ELSE Nil >>)
C20_Witness ==
    /\ Returned
    /\ FnReturned = Nil
    /\ ~CopyFailed("stdout") /\ CopyFailed("stderr")
    /\ Is(RetErr, ErrStderrCapture) /\ ~Is(RetErr, ErrStdoutCapture)
    /\ Is(RetErr, cpyerr)

\* capture has returned for stream s and its restore has not been called
InWindow(s) == Count(At("capture", s)) = 1 /\ Count(At("restore", s)) = 0

\* C12: between capture's return and restore's call for a stream, every
\* write a task of fn makes through the stream's handle finds the handle at
\* the open write end of the call's pipe and goes into that pipe; none is
\* made through a write end that is already closed.
C12_WritesReachPipe ==
    \A s \in Streams : InWindow(s) =>
        \A i \in 1..Len(bg) :
            bg[i][1] = s => (bg[i][2] = W(pipe[s]) /\ bg[i][3])

\* C17: in a sequence of calls of Output that do not overlap, every call
\* makes its own two pipes, what it returns for a stream is the lines
\* written during its own fn and nothing of another call, and after each
\* call both handles hold the values they held before the first call.
C17_CallsIsolated ==
    /\ \A s \in Streams : pipe[s] # 0 =>
        /\ pipe[s] > Cardinality(Streams) * (NCall - 1)
        /\ buf[s] \o pipeBuf[pipe[s]] = written[s]
    /\ Returned => \A s \in Streams :
        Ret(s) = IF CopyFailed(s) THEN NilLines ELSE RefLines(written[s])
    /\ Done => handle = pre
C17_Witness ==
    /\ NCall = MaxCalls
    /\ earlier[2] > 0
    /\ Done
    /\ Returned
    /\ BothSucceed
    /\ written["stdout"] = <<"a", NL>> /\ written["stderr"] = <<>>
    /\ ret[1] = Slice(<< <<"a">> >>) /\ ret[2] = NilLines
    /\ handle = pre

\* ------------------------------------------------- two calls side by side
BothOver == other # NoFrame /\ Done /\ Fpc(other) = At("done", "")
Restores(l, s) == Cardinality({i \in 1..Len(l) : l[i] = At("restore", s)})
\* what a capture can find in the handle: the original, or the write end
\* the other call has put there
Found(s, otherPipe) ==
    {NoFile, pre[s]} \cup (IF otherPipe[s] # 0 THEN {W(otherPipe[s])} ELSE {})

\* C18: with two calls of Output side by side on the same handles the later
\* capture overwrites the earlier one's redirection and saves that
\* redirection as its original; the handle ends at whatever the last restore
\* saved, so that after both calls have returned a handle can be left at the
\* closed write end of a finished call's pipe, and what one fn wrote can be
\* returned by the other call.
C18_LastBeginWins ==
    (other # NoFrame /\ ~Nested) =>
        /\ \A s \in Streams :
            /\ og[s] \in Found(s, Fpipe(other))
            /\ Fog(other)[s] \in Found(s, pipe)
            /\ (pipe[s] # 0 /\ Fpipe(other)[s] # 0
                /\ Restores(log, s) = 0 /\ Restores(Flog(other), s) = 0) =>
                    handle[s] = W(IF pipe[s] > Fpipe(other)[s]
                                  THEN pipe[s] ELSE Fpipe(other)[s])
        /\ BothOver => \A s \in Streams :
            /\ handle[s] \in {og[s], Fog(other)[s]}
            /\ handle[s] # pre[s] =>
                (IsW(handle[s]) /\ wclosed[PipeOf(handle[s])])
C18_Witness ==
    /\ BothOver
    /\ Returned /\ Fret(other) # <<>>
    /\ handle["stdout"] # pre["stdout"]
    /\ handle["stdout"] = W(Fpipe(other)["stdout"])
    /\ wclosed[Fpipe(other)["stdout"]]
    /\ Fwritten(other)["stdout"] = <<"a">> /\ written["stdout"] = <<>>
    /\ Fret(other)[1] = NilLines
    /\ ret[1] = Slice(<< <<"a">> >>)

\* ---------------------------------------------------- a call within a call
Outer == IF IsOuter(log) THEN Frame ELSE other
Inner == IF IsOuter(log) THEN other ELSE Frame
\* what call f returned for its streams, against what its own fn wrote
ReturnsOwn(f) ==
    \A s \in Streams :
        (IF s = "stdout" THEN Fret(f)[1] ELSE Fret(f)[2]) =
            IF Fcerr(f)[s] # Nil THEN NilLines ELSE RefLines(Fwritten(f)[s])

\* C19: when fn calls Output itself, the inner call returns the lines the
\* inner function wrote and the outer call the lines fn wrote outside the
\* inner call; when the inner call is over both handles are again the open
\* write ends of the outer call's pipes, and when the outer call is over
\* both handles hold their original values.
C19_NestedIsolated ==
    Nested =>
        /\ Fret(Inner) # <<>> => ReturnsOwn(Inner)
        /\ Fret(Outer) # <<>> => ReturnsOwn(Outer)
        /\ (Fpc(Inner) = At("done", "")
            /\ (Fpc(Outer) = At("nested", "") \/ Fpc(Outer) = At("fn", ""))) =>
                \A s \in Streams :
                    /\ handle[s] = W(Fpipe(Outer)[s])
                    /\ ~wclosed[Fpipe(Outer)[s]]
        /\ Fpc(Outer) = At("done", "") => handle = pre
C19_Witness ==
    /\ Nested
    /\ Fpc(Outer) = At("done", "")
    /\ Fret(Outer) # <<>> /\ Fret(Inner) # <<>>
    /\ Fwritten(Outer)["stdout"] = <<NL>> /\ Fwritten(Inner)["stdout"] = <<"a">>
    /\ Fret(Outer)[1] = Slice(<< <<>> >>)
    /\ Fret(Inner)[1] = Slice(<< <<"a">> >>)
    /\ handle = pre

====
